---- MODULE Spec2Model ----
(***************************************************************************)
(* Model of baslerwrappers.py: a facade over a camera SDK.  The camera     *)
(* (its node map, its grab engine) is the environment; every function of   *)
(* the module is one action.  The node map is modelled as GenICam nodes    *)
(* behave: each ROI field has an access mode (writable or not) and a live  *)
(* range [Min, Max] whose Max depends on the partner field (Width.Max =    *)
(* sensor width - OffsetX, OffsetX.Max = sensor width - Width); a write to *)
(* a non-writable node or of an out-of-range value raises a                *)
(* genicam.GenericException and leaves the node unchanged.                 *)
(***************************************************************************)
EXTENDS Integers, Sequences, FiniteSets, TLC

VARIABLES
    opened,     \* camera.IsOpen()
    grabbing,   \* camera.IsGrabbing()
    roi,        \* node map values: [w, h, x, y] = Width, Height, OffsetX, OffsetY
    writable,   \* node map access modes: field -> genicam.IsWritable(field)
    held,       \* Grab Results retrieved and never released by the code
    attached,   \* PylonImage objects still attached to a grab buffer
    lastOp,     \* the function that ran last
    ret,        \* how it ended: returned (with what) or raised (what)
    cap,        \* what the last capture call did
    call,       \* what the last ROI call did: ROI before, request, write log
    scn         \* progress along create -> start -> take one -> stop -> close

vars == <<opened, grabbing, roi, writable, held, attached, lastOp, ret, cap, call, scn>>

\* Bounds of the model: the sensor's size, and how many leaked buffers are counted.
SensorW == 2
SensorH == 2
MaxHeld == 1

Fields == {"w", "h", "x", "y"}
Sizes == {"w", "h"}
Offsets == {"x", "y"}

\* ---------------------------------------------------------------- node map

\* The sensor extent along a field's axis.
Sensor(f) == IF f \in {"w", "x"} THEN SensorW ELSE SensorH

\* Width pairs with OffsetX, Height with OffsetY.
Partner(f) == CASE f = "w" -> "x" [] f = "x" -> "w" [] f = "h" -> "y" [] f = "y" -> "h"

\* camera.<field>.Min
FieldMin(f) == IF f \in Sizes THEN 1 ELSE 0

\* camera.<field>.Max, as reported live: what the partner field leaves free.
FieldMax(r, f) == Sensor(f) - r[Partner(f)]

\* genicam.IsWritable(camera.<field>)
IsWritable(wr, f) == wr[f]

\* The device takes camera.<field> = v, or raises a GenericException.
Accepts(r, wr, f, v) == IsWritable(wr, f) /\ v >= FieldMin(f) /\ v <= FieldMax(r, f)

Rect(w, h, x, y) == [w |-> w, h |-> h, x |-> x, y |-> y]

\* A rectangle that lies within the sensor.
InSensor(r) ==
    /\ r.w >= FieldMin("w") /\ r.h >= FieldMin("h")
    /\ r.x >= FieldMin("x") /\ r.y >= FieldMin("y")
    /\ r.w + r.x <= SensorW /\ r.h + r.y <= SensorH

\* What a caller asks change_ROI for: sizes from below the minimum up to the
\* sensor, offsets up to the last pixel; rectangles that leave the sensor
\* are among them.
Requests == [w : 0..SensorW, h : 0..SensorH, x : 0..(SensorW - 1), y : 0..(SensorH - 1)]
ROIs == {r \in Requests : InSensor(r)}

\* The access modes a device mode gives the four nodes: width and height are
\* locked together (while the transport layer holds its parameters locked),
\* each offset on its own (by the centring feature of its axis).
AccessModes == {m \in [Fields -> BOOLEAN] : m["w"] = m["h"]}
FullFrame == Rect(SensorW, SensorH, FieldMin("x"), FieldMin("y"))

\* What a configuration file puts into the node map: the access modes that
\* follow from the features it sets, and either the full frame or no ROI
\* entry at all (the device keeps the ROI it has, also across Close/Open).
Blobs == [setsRoi : BOOLEAN, writable : AccessModes]

\* pylon.FeaturePersistence.Load(config_file_dir, camera.GetNodeMap(), True)
Load(blob, r) == [roi |-> IF blob.setsRoi THEN FullFrame ELSE r, writable |-> blob.writable]

NoRect == Rect(0, 0, 0, 0)
NoCall == [pre |-> NoRect, req |-> NoRect, log |-> <<>>]
NoCap == [preOpened |-> FALSE, preGrabbing |-> FALSE, retr |-> "-", retrieved |-> FALSE,
          releases |-> 0, reported |-> FALSE, imgReleased |-> TRUE, file |-> FALSE,
          retry |-> FALSE]
Returned(v) == [result |-> "returned", exc |-> "none", retval |-> v]
Raised(e) == [result |-> "raised", exc |-> e, retval |-> "-"]

Init ==
    /\ opened = FALSE /\ grabbing = FALSE
    /\ roi = FullFrame
    /\ writable = [f \in Fields |-> TRUE]
    /\ held = 0 /\ attached = 0
    /\ lastOp = "none" /\ ret = Returned("None")
    /\ cap = NoCap /\ call = NoCall /\ scn = 0

\* ---------------------------------------------------------------- session

create_simple_camera ==
    /\ ~opened
    /\ \E present \in BOOLEAN, parses \in BOOLEAN, blob \in Blobs :
         IF present /\ parses
         THEN /\ opened' = TRUE
              /\ roi' = Load(blob, roi).roi /\ writable' = Load(blob, roi).writable
              /\ ret' = Returned("camera")
              /\ scn' = IF held = 0 /\ attached = 0 THEN 1 ELSE 0
         ELSE \* no device, or Load raised: no camera object is returned
              /\ UNCHANGED <<opened, roi, writable>>
              /\ ret' = Raised("GenericException")
              /\ scn' = 0
    /\ lastOp' = "create_simple_camera"
    /\ cap' = NoCap /\ call' = NoCall
    /\ UNCHANGED <<grabbing, held, attached>>

change_feature_map ==
    /\ opened
    /\ \E parses \in BOOLEAN, blob \in Blobs :
         IF parses
         THEN /\ roi' = Load(blob, roi).roi /\ writable' = Load(blob, roi).writable
              /\ ret' = Returned("camera")
              /\ scn' = IF scn = 1 THEN 1 ELSE 0
         ELSE /\ UNCHANGED <<roi, writable>>
              /\ ret' = Raised("GenericException")
              /\ scn' = 0
    /\ lastOp' = "change_feature_map"
    /\ cap' = NoCap /\ call' = NoCall
    /\ UNCHANGED <<opened, grabbing, held, attached>>

start_imaging ==
    /\ opened
    /\ IF grabbing
       THEN /\ ret' = Raised("GenericException") /\ scn' = 0   \* StartGrabbing while grabbing
            /\ UNCHANGED grabbing
       ELSE /\ grabbing' = TRUE /\ ret' = Returned("None")
            /\ scn' = IF scn = 1 THEN 2 ELSE 0
    /\ lastOp' = "start_imaging"
    /\ cap' = NoCap /\ call' = NoCall
    /\ UNCHANGED <<opened, roi, writable, held, attached>>

stop_imaging ==
    /\ opened
    /\ grabbing' = FALSE
    /\ ret' = Returned("None")
    /\ scn' = IF scn = 3 THEN 4 ELSE 0
    /\ lastOp' = "stop_imaging"
    /\ cap' = NoCap /\ call' = NoCall
    /\ UNCHANGED <<opened, roi, writable, held, attached>>

close_camera ==
    /\ opened
    /\ opened' = FALSE /\ grabbing' = FALSE
    /\ ret' = Returned("None")
    /\ scn' = IF scn = 4 THEN 5 ELSE 0
    /\ lastOp' = "close_camera"
    /\ cap' = NoCap /\ call' = NoCall
    /\ UNCHANGED <<roi, writable, held, attached>>

\* ---------------------------------------------------------------- region of interest

\* The state of one ROI call as it runs: the ROI before the call, the ROI now,
\* the writes asked of the device so far, and whether one was rejected.
Begin(r, wr) == [pre |-> r, roi |-> r, wr |-> wr, log |-> <<>>, raised |-> FALSE]

WriteRollback(st, f, v) ==
    IF st.raised THEN st
    ELSE IF Accepts(st.roi, st.wr, f, v)
         THEN [st EXCEPT !.roi = [@ EXCEPT ![f] = v],
                         !.log = Append(@, [f |-> f, v |-> v, at |-> st.roi, ok |-> TRUE])]
         ELSE [st EXCEPT !.roi = st.pre, !.raised = TRUE,
                         !.log = Append(@, [f |-> f, v |-> v, at |-> st.roi, ok |-> FALSE])]

\* camera.<f> = v inside the try block: once a write has raised, the rest of
\* the block is skipped; a rejected write leaves the node map as it is.
Write(st, f, v) ==
    IF st.raised THEN st
    ELSE IF Accepts(st.roi, st.wr, f, v)
         THEN [st EXCEPT !.roi = [@ EXCEPT ![f] = v],
                         !.log = Append(@, [f |-> f, v |-> v, at |-> st.roi, ok |-> TRUE])]
         ELSE [st EXCEPT !.raised = TRUE,
                         !.log = Append(@, [f |-> f, v |-> v, at |-> st.roi, ok |-> FALSE])]

\* if genicam.IsWritable(camera.<f>): camera.<f> = v
WriteIfWritable(st, f, v) == IF IsWritable(st.wr, f) THEN Write(st, f, v) ELSE st

\* The try block of change_ROI: width, height, then the offsets.
SetROI(r, wr, req) ==
    LET s1 == Write(Begin(r, wr), "w", req.w)
        s2 == Write(s1, "h", req.h)
        s3 == WriteIfWritable(s2, "x", req.x)
    IN  WriteIfWritable(s3, "y", req.y)

MaximizeSizeFirst(r, wr) ==
    LET s1 == Write(Begin(r, wr), "w", FieldMax(r, "w"))
        s2 == Write(s1, "h", FieldMax(s1.roi, "h"))
        s3 == WriteIfWritable(s2, "x", FieldMin("x"))
    IN  WriteIfWritable(s3, "y", FieldMin("y"))

\* The try block of max_ROI: the offsets to their minimum, then width and
\* height to the maximum the device reports at that moment.
Maximize(r, wr) ==
    LET s1 == WriteIfWritable(Begin(r, wr), "x", FieldMin("x"))
        s2 == WriteIfWritable(s1, "y", FieldMin("y"))
        s3 == Write(s2, "w", FieldMax(s2.roi, "w"))
    IN  Write(s3, "h", FieldMax(s3.roi, "h"))

RoiReturnSwallow(st) == Returned("camera")

\* except genicam.GenericException: raise genicam.RuntimeException(...);
\* otherwise return camera.
RoiReturn(st) == IF st.raised THEN Raised("RuntimeException") ELSE Returned("camera")

change_ROI ==
    /\ opened
    /\ \E req \in Requests : \E st \in {SetROI(roi, writable, req)} :
             /\ roi' = st.roi
             /\ ret' = RoiReturn(st)
             /\ call' = [pre |-> roi, req |-> req, log |-> st.log]
    /\ lastOp' = "change_ROI"
    /\ cap' = NoCap /\ scn' = 0
    /\ UNCHANGED <<opened, grabbing, writable, held, attached>>

max_ROI ==
    /\ opened
    /\ \E st \in {Maximize(roi, writable)} :
           /\ roi' = st.roi
           /\ ret' = RoiReturn(st)
           /\ call' = [pre |-> roi, req |-> NoRect, log |-> st.log]
    /\ lastOp' = "max_ROI"
    /\ cap' = NoCap /\ scn' = 0
    /\ UNCHANGED <<opened, grabbing, writable, held, attached>>

\* ---------------------------------------------------------------- capture

\* What camera.RetrieveResult(5000, ...) can do: hand back a Grab Result that
\* succeeded ("ok") or failed ("failed"), or raise a GenericException: the
\* timeout expired, or the camera is not grabbing.
RetrieveOutcomes(g) == IF g THEN {"ok", "failed", "exception"} ELSE {"exception"}

\* converter.Convert / image.GetArray, and img.Save: done, or a GenericException.
StepOutcomes == {"ok", "exception"}

TakeOneReraise(retr, conv) ==
    CASE retr = "exception" ->
           [ret |-> Raised("GenericException"), retrieved |-> FALSE, releases |-> 0,
            reported |-> TRUE, leak |-> 0]
      [] retr = "ok" /\ conv = "ok" ->
           [ret |-> Returned("image"), retrieved |-> TRUE, releases |-> 1,
            reported |-> FALSE, leak |-> 0]
      [] retr = "ok" /\ conv = "exception" ->
           [ret |-> Returned("None"), retrieved |-> TRUE, releases |-> 0,
            reported |-> TRUE, leak |-> 1]
      [] retr = "failed" ->
           [ret |-> Raised("UnboundLocalError"), retrieved |-> TRUE, releases |-> 1,
            reported |-> TRUE, leak |-> 0]

\* The body of take_one_opencv_image, path by path.
TakeOne(retr, conv) ==
    CASE retr = "exception" ->
           \* RetrieveResult raised: the except clause prints the description
           \* and returns None; no Grab Result exists.
           [ret |-> Returned("None"), retrieved |-> FALSE, releases |-> 0,
            reported |-> TRUE, leak |-> 0]
      [] retr = "ok" /\ conv = "ok" ->
           \* converted, grabResult.Release(), return img
           [ret |-> Returned("image"), retrieved |-> TRUE, releases |-> 1,
            reported |-> FALSE, leak |-> 0]
      [] retr = "ok" /\ conv = "exception" ->
           \* Convert raised: control jumps over grabResult.Release() to the
           \* except clause, which returns None.
           [ret |-> Returned("None"), retrieved |-> TRUE, releases |-> 0,
            reported |-> TRUE, leak |-> 1]
      [] retr = "failed" ->
           \* error code and description printed, grabResult.Release(), then
           \* "return img" with img never assigned: UnboundLocalError, which
           \* is no GenericException and leaves the function.
           [ret |-> Raised("UnboundLocalError"), retrieved |-> TRUE, releases |-> 1,
            reported |-> TRUE, leak |-> 0]

take_one_opencv_image ==
    /\ opened
    /\ \E retr \in RetrieveOutcomes(grabbing), conv \in StepOutcomes :
         LET r == TakeOne(retr, conv)
         IN  /\ conv = "exception" => retr = "ok"
             /\ held + r.leak <= MaxHeld
             /\ held' = held + r.leak
             /\ ret' = r.ret
             /\ cap' = [preOpened |-> opened, preGrabbing |-> grabbing, retr |-> retr,
                        retrieved |-> r.retrieved, releases |-> r.releases,
                        reported |-> r.reported, imgReleased |-> TRUE, file |-> FALSE,
                        retry |-> lastOp = "take_one_opencv_image" /\ cap.retr = "exception"]
    /\ lastOp' = "take_one_opencv_image"
    /\ scn' = IF scn = 2 THEN 3 ELSE 0
    /\ call' = NoCall
    /\ UNCHANGED <<opened, grabbing, roi, writable, attached>>

\* The body of capture_and_save_png, path by path.  The Grab Result is the
\* "with" target, so it is released when the block is left, however it is
\* left; img.Release() is the last statement of the block.
SavePng(retr, save) ==
    CASE retr = "exception" ->
           \* RetrieveResult(5000) raises on timeout; nothing catches it.
           [ret |-> Raised("GenericException"), retrieved |-> FALSE, releases |-> 0,
            imgReleased |-> TRUE, file |-> FALSE, stuck |-> 0]
      [] retr = "ok" /\ save = "ok" ->
           [ret |-> Returned("None"), retrieved |-> TRUE, releases |-> 1,
            imgReleased |-> TRUE, file |-> TRUE, stuck |-> 0]
      [] retr = "ok" /\ save = "exception" ->
           \* img.Save raised: img.Release() is skipped, img stays attached.
           [ret |-> Raised("GenericException"), retrieved |-> TRUE, releases |-> 1,
            imgReleased |-> FALSE, file |-> FALSE, stuck |-> 1]
      [] retr = "failed" ->
           \* GrabSucceeded() is never asked: the failed result is attached
           \* and Save raises on the invalid image.
           [ret |-> Raised("GenericException"), retrieved |-> TRUE, releases |-> 1,
            imgReleased |-> FALSE, file |-> FALSE, stuck |-> 1]

capture_and_save_png ==
    /\ opened
    /\ \E retr \in RetrieveOutcomes(grabbing), save \in StepOutcomes :
         LET r == SavePng(retr, save)
         IN  /\ save = "exception" => retr = "ok"
             /\ attached + r.stuck <= MaxHeld
             /\ attached' = attached + r.stuck
             /\ ret' = r.ret
             /\ cap' = [preOpened |-> opened, preGrabbing |-> grabbing, retr |-> retr,
                        retrieved |-> r.retrieved, releases |-> r.releases,
                        reported |-> FALSE, imgReleased |-> r.imgReleased,
                        file |-> r.file, retry |-> FALSE]
    /\ lastOp' = "capture_and_save_png"
    /\ scn' = 0
    /\ call' = NoCall
    /\ UNCHANGED <<opened, grabbing, roi, writable, held>>

\* The interpreter reclaims an object the code dropped without releasing it
\* (the grabResult local of take_one_opencv_image, the img local of
\* capture_and_save_png); its destructor gives the buffer back.  When this
\* happens is up to the interpreter.
Finalizer ==
    /\ \/ held > 0 /\ held' = held - 1 /\ UNCHANGED attached
       \/ attached > 0 /\ attached' = attached - 1 /\ UNCHANGED held
    /\ UNCHANGED <<opened, grabbing, roi, writable, lastOp, ret, cap, call, scn>>

\* ---------------------------------------------------------------- specifications

NextROI ==
    \/ create_simple_camera
    \/ change_feature_map
    \/ change_ROI
    \/ max_ROI
    \/ close_camera

SpecROI == Init /\ [][NextROI]_vars

NextCapture ==
    \/ create_simple_camera
    \/ change_feature_map
    \/ start_imaging
    \/ stop_imaging
    \/ close_camera
    \/ take_one_opencv_image
    \/ capture_and_save_png
    \/ Finalizer

SpecCapture == Init /\ [][NextCapture]_vars

Next == NextROI \/ NextCapture

Spec == Init /\ [][Next]_vars

\* ---------------------------------------------------------------- properties

TypeOK ==
    /\ opened \in BOOLEAN /\ grabbing \in BOOLEAN
    /\ grabbing => opened
    /\ roi \in ROIs /\ writable \in AccessModes
    /\ held \in 0..MaxHeld /\ attached \in 0..MaxHeld
    /\ scn \in 0..5

RoiOps == {"change_ROI", "max_ROI"}
CaptureOps == {"take_one_opencv_image", "capture_and_save_png"}

\* A write of the last ROI call was rejected by the device.
Rejected == \E i \in 1..Len(call.log) : ~call.log[i].ok

\* The fields the last ROI call wrote successfully.
Written == {call.log[i].f : i \in {j \in 1..Len(call.log) : call.log[j].ok}}

\* The order in which an ROI function writes the fields it writes.
WriteOrder(op) == IF op = "change_ROI" THEN <<"w", "h", "x", "y">> ELSE <<"x", "y", "w", "h">>

\* C1: in take_one_opencv_image every Grab Result that RetrieveResult hands
\* back is released exactly once before the call ends, on every path; and
\* after create -> start -> take one -> stop -> close, begun with nothing
\* unreleased, no Grab Result is left unreleased.
C1_ReleasedExactlyOnce ==
    /\ (lastOp = "take_one_opencv_image" /\ cap.retrieved) => cap.releases = 1
    /\ scn = 5 => held = 0

\* C2: when the retrieved Grab Result reports failure, take_one_opencv_image
\* reports the error and returns normally with no image.
C2_FailedGrabReturnsNoImage ==
    (lastOp = "take_one_opencv_image" /\ cap.retr = "failed")
        => (cap.reported /\ ret = Returned("None"))

\* C3: when RetrieveResult raises inside take_one_opencv_image (timeout
\* included), the exception is caught and its description reported, the call
\* returns no image, nothing propagates, and the camera is as open and as
\* grabbing as it was before the call.
C3_RetrievalExceptionCaught ==
    (lastOp = "take_one_opencv_image" /\ cap.retr = "exception")
        => /\ ret = Returned("None")
           /\ cap.reported /\ ~cap.retrieved
           /\ opened = cap.preOpened /\ grabbing = cap.preGrabbing

\* C3, the session remains usable: a take_one_opencv_image that follows one
\* whose retrieval raised has returned an image.
C3_Witness ==
    /\ lastOp = "take_one_opencv_image" /\ cap.retry
    /\ ret = Returned("image") /\ opened /\ grabbing

\* C4 as stated: after max_ROI returns, both offsets are at their minimum and
\* width and height at their reported maximum, whatever the state before,
\* non-writable offsets included.
C4_Original ==
    (lastOp = "max_ROI" /\ ret.result = "returned")
        => /\ roi.x = FieldMin("x") /\ roi.y = FieldMin("y")
           /\ roi.w = FieldMax(roi, "w") /\ roi.h = FieldMax(roi, "h")

\* C4 amended: after max_ROI returns, every offset the device reports as
\* writable is at its minimum, every offset it reports as non-writable is
\* what it was before the call, and width and height are at the maximum the
\* device reports for them.
C4_MaximizeWritableOffsets ==
    (lastOp = "max_ROI" /\ ret.result = "returned")
        => /\ \A f \in Offsets :
                IF IsWritable(writable, f) THEN roi[f] = FieldMin(f) ELSE roi[f] = call.pre[f]
           /\ roi.w = FieldMax(roi, "w") /\ roi.h = FieldMax(roi, "h")

\* C4: max_ROI has returned on a camera whose x-offset is locked away from
\* its minimum, after moving the other fields.
C4_Witness ==
    /\ lastOp = "max_ROI" /\ ret.result = "returned"
    /\ ~IsWritable(writable, "x") /\ roi.x > FieldMin("x")
    /\ roi # call.pre

\* C5: for a requested rectangle within the sensor, change_ROI followed by a
\* query returns the requested values, except that a non-writable offset
\* keeps its value; from any ROI the camera had before.  (Stated for cameras
\* whose width and height are writable.)
C5_RoundTrip ==
    (/\ lastOp = "change_ROI" /\ InSensor(call.req)
     /\ IsWritable(writable, "w") /\ IsWritable(writable, "h"))
        => /\ roi.w = call.req.w /\ roi.h = call.req.h
           /\ \A f \in Offsets :
                IF IsWritable(writable, f) THEN roi[f] = call.req[f] ELSE roi[f] = call.pre[f]

\* C6: change_ROI and max_ROI end in a raised RuntimeException, and do not
\* return the camera, whenever the device rejects one of the writes they make.
C6_RejectionPropagates ==
    (lastOp \in RoiOps /\ Rejected)
        => (ret.result = "raised" /\ ret.exc = "RuntimeException" /\ ret.retval # "camera")

\* C6: change_ROI has asked a writable field for a value out of its range.
C6_Witness ==
    /\ lastOp = "change_ROI"
    /\ \E i \in 1..Len(call.log) : ~call.log[i].ok /\ IsWritable(writable, call.log[i].f)

\* C7: capture_and_save_png releases the image attachment and the Grab Result
\* before it ends, whether img.Save succeeded or raised.  (Stated for grabs
\* that succeeded.)
C7_AttachmentAndBufferReleased ==
    (lastOp = "capture_and_save_png" /\ cap.retr = "ok")
        => (cap.imgReleased /\ cap.releases = 1)

\* C8: a grab timeout or failed grab in either capture function, on a camera
\* that is grabbing, is reported and tolerated: the call returns, the camera
\* stays open and grabbing, and no file is written.
C8_GrabFailureTolerated ==
    (lastOp \in CaptureOps /\ cap.preGrabbing /\ cap.retr \in {"exception", "failed"})
        => /\ ret.result = "returned"
           /\ opened = cap.preOpened /\ grabbing = cap.preGrabbing
           /\ ~cap.file

\* C9: every offset lies within its live [Min, Max], and no write that
\* change_ROI or max_ROI asks of the device, combined with the partner field
\* as it is at that moment, exceeds the sensor.  (Stated for change_ROI calls
\* whose requested rectangle lies within the sensor.)
C9_WritesWithinSensor ==
    /\ \A f \in Offsets : roi[f] >= FieldMin(f) /\ roi[f] <= FieldMax(roi, f)
    /\ (lastOp \in RoiOps /\ (lastOp = "change_ROI" => InSensor(call.req)))
          => \A i \in 1..Len(call.log) :
                call.log[i].v + call.log[i].at[Partner(call.log[i].f)] <= Sensor(call.log[i].f)

\* C10: no rollback.  When the device rejects a write of change_ROI or
\* max_ROI, the rejected write is the last one made, the writes are a prefix
\* of the function's write order (offsets checked non-writable left out), the
\* fields written before it hold their new values, every other field holds the
\* value it had before the call, and the function raises.
C10_NoRollback ==
    (lastOp \in RoiOps /\ Rejected)
        => /\ ~call.log[Len(call.log)].ok
           /\ \A i \in 1..(Len(call.log) - 1) : call.log[i].ok
           /\ LET made == SelectSeq(WriteOrder(lastOp),
                                    LAMBDA f : f \in Sizes \/ IsWritable(writable, f))
              IN  /\ Len(call.log) <= Len(made)
                  /\ \A i \in 1..Len(call.log) : call.log[i].f = made[i]
           /\ \A i \in 1..(Len(call.log) - 1) : roi[call.log[i].f] = call.log[i].v
           /\ \A f \in Fields \ Written : roi[f] = call.pre[f]
           /\ ret.result = "raised"

\* C10: a failed change_ROI has left an ROI that is neither the one before
\* the call nor the one requested.
C10_Witness ==
    /\ lastOp = "change_ROI" /\ Rejected /\ InSensor(call.req)
    /\ roi # call.pre /\ roi # call.req

====
